---------------------------- MODULE Spec2Model ----------------------------
(***************************************************************************)
(* Orchestration core of the EAM cognitive back office: the run state      *)
(* (app/core/state.py), the decide-next function and the router            *)
(* (app/core/supervisor.py), the graph of nodes (app/core/graph.py), the   *)
(* chat endpoint that drives one run (app/api/routes/chat.py) and the      *)
(* human-in-the-loop approval store with its review endpoint               *)
(* (app/security/hitl.py, app/api/routes/hitl.py).                         *)
(*                                                                         *)
(* A node receives a CognitiveState built from the graph's channel values  *)
(* and returns a partial update; only the keys of the returned dict are    *)
(* written back to the channels.  What a node changes on the object it was *)
(* handed and does not return is not part of the run state afterwards.     *)
(***************************************************************************)
EXTENDS Integers, Sequences, FiniteSets, TLC

VARIABLES
    state,          \* channel values of the run's CognitiveState
    initial_state,  \* the state the graph was invoked with
    node,           \* node the executor runs next
    supersteps,     \* node executions performed in this run
    graph_invocations, \* times the graph was invoked for this run
    run_status,     \* agent_runs.status of the run
    chat_response,  \* ChatResponse returned to the caller, once delivered
    hitl_requests,  \* table hitl_requests, in insertion order
    reviews,        \* the review calls in flight, one per reviewer
    clock,          \* wall clock (utcnow / database now())
    engine,         \* the DSEEEngine instance (module global _engine)
    call,           \* the last call made on the state model or the engine
    graph_checkpoints, \* table graph_checkpoints
    cp_call,        \* the last call made on the checkpointer
    brain_log_table, \* table brain_log, in insertion order
    cancel          \* the cancel_run call in flight

\* the tables and calls outside the graph and the approval store
store_vars == <<graph_checkpoints, cp_call, brain_log_table, cancel>>

vars == <<state, initial_state, node, supersteps, graph_invocations, run_status,
          chat_response, hitl_requests, reviews, clock, engine, call,
          store_vars>>

---------------------------------------------------------------------------
(* Values *)

None == "None"

max_agent_iterations == 10
hitl_timeout_hours == 24

MaxToolCalls == 1
NumReviewers == 2

AgentSlot == {"admisiones", "finanzas", "retencion", "comunicaciones", "tic"}

\* str(e) of the exception a collaborator raised: empty for an exception
\* raised without a message (send_message_stream guards with `str(e) or ...`)
ErrorTexts == {"", "boom"}

\* Python truthiness of an Optional[str]
Truthy(x) == x /= None /\ x /= ""

---------------------------------------------------------------------------
(* CognitiveState helper methods *)

BrainLogEntry(step_type, content, agent) ==
    [step_type |-> step_type, content |-> content, agent_slot |-> agent]

\* faulty variant: the entry replaces the log
log_thinking_overwriting(s, content, agent) ==
    [s EXCEPT !.brain_log = <<BrainLogEntry("thinking", content, agent)>>]

log_thinking(s, content, agent) ==
    [s EXCEPT !.brain_log = Append(@, BrainLogEntry("thinking", content, agent))]

log_action(s, tool_name, agent) ==
    [s EXCEPT !.brain_log =
        Append(@, BrainLogEntry("action", "Executing tool: " \o tool_name, agent))]

log_observation(s, content, agent) ==
    [s EXCEPT !.brain_log = Append(@, BrainLogEntry("observation", content, agent))]

log_decision(s, content, agent) ==
    [s EXCEPT !.brain_log = Append(@, BrainLogEntry("decision", content, agent))]

log_error(s, content, agent) ==
    [s EXCEPT !.brain_log = Append(@, BrainLogEntry("error", content, agent)),
              !.error = content]

mark_visited(s, agent) ==
    IF \E i \in DOMAIN s.visited_agents : s.visited_agents[i] = agent
    THEN s
    ELSE [s EXCEPT !.visited_agents = Append(@, agent)]

request_hitl(s, reason) ==
    [s EXCEPT !.requires_hitl = TRUE, !.hitl_reason = reason]

complete(s, response) ==
    [s EXCEPT !.final_response = response,
              !.current_response = response,
              !.is_complete = TRUE]

\* the channels take the keys of the dict a node returned
Merge(s, update) ==
    [k \in DOMAIN s |-> IF k \in DOMAIN update THEN update[k] ELSE s[k]]

add_genui(s, component) ==
    [s EXCEPT !.genui_payloads = Append(@, [component |-> component])]

---------------------------------------------------------------------------
(* Deterministic State Evolution Engine *)

\* DSEEEngine.__init__; persisted is what the persistence callback received
\* with the states it was called with, whether it returned or raised;
\* callback_raises tells a callback whose calls raise
DSEEEngine(persist_callback) ==
    [persist_callback |-> persist_callback,
     callback_raises |-> FALSE,
     transition_count |-> 0,
     persisted |-> <<>>]

\* self.persist_callback(s), when a callback is configured
persist(eng, s) ==
    IF eng.persist_callback THEN [eng EXCEPT !.persisted = Append(@, s)] ELSE eng

\* the transitions of dsee.py, by factory and argument; AgentSlot("bogus")
\* raises ValueError inside transition_start_agent's _transition
RepoTransitions ==
    {[kind |-> "start_agent", arg |-> a] : a \in {"admisiones", "bogus"}}
    \cup {[kind |-> "complete_response", arg |-> "respuesta"],
          [kind |-> "request_hitl", arg |-> "factura > $1,000,000"]}

\* transition functions a caller of evolve passes: one that returns an
\* updated copy (model_copy) with the counter reset, one that raises the
\* counter on the object it was given, one that logs and then raises
CallerTransitions ==
    {[kind |-> "copy_reset", arg |-> ""], [kind |-> "bump_in_place", arg |-> ""]}
    \cup {[kind |-> "log_then_raise", arg |-> e] : e \in ErrorTexts}

TransitionFns == RepoTransitions \cup CallerTransitions

\* transition_fn(state): whether it raised, whether it returned the object it
\* was given, the value of the object it returned and the value of the
\* caller's object afterwards
transition_fn(f, s) ==
    IF f.kind = "start_agent"
    THEN IF f.arg \in AgentSlot
         THEN LET v == log_thinking(mark_visited(s, f.arg),
                                    "Entering agent: " \o f.arg, f.arg)
              IN [raised |-> FALSE, error |-> None, in_place |-> TRUE,
                  value |-> v, state |-> v]
         ELSE [raised |-> TRUE, error |-> "not a valid AgentSlot",
               in_place |-> TRUE, value |-> s, state |-> s]
    ELSE IF f.kind = "complete_response"
    THEN LET v == log_decision(complete(s, f.arg), "Final response generated", None)
         IN [raised |-> FALSE, error |-> None, in_place |-> TRUE,
             value |-> v, state |-> v]
    ELSE IF f.kind = "request_hitl"
    THEN LET v == log_decision(request_hitl(s, f.arg),
                               "HITL requested: " \o f.arg, None)
         IN [raised |-> FALSE, error |-> None, in_place |-> TRUE,
             value |-> v, state |-> v]
    ELSE IF f.kind = "copy_reset"
    THEN [raised |-> FALSE, error |-> None, in_place |-> FALSE,
          value |-> [s EXCEPT !.iteration_count = 0], state |-> s]
    ELSE IF f.kind = "bump_in_place"
    THEN LET v == [s EXCEPT !.iteration_count = @ + 1]
         IN [raised |-> FALSE, error |-> None, in_place |-> TRUE,
             value |-> v, state |-> v]
    ELSE LET v == log_thinking(s, "Trying", None)
         IN [raised |-> TRUE, error |-> f.arg, in_place |-> TRUE,
             value |-> v, state |-> v]

\* faulty variant: a failed transition is logged and the state returned
evolve_swallowing(eng, s, f) ==
    LET eng1 == [eng EXCEPT !.transition_count = @ + 1]
        r == transition_fn(f, s)
        new_state == [r.value EXCEPT !.iteration_count = r.state.iteration_count + 1]
        error_state == log_error(r.state,
            "Transition '" \o f.kind \o "' failed: " \o r.error, None)
    IN IF ~r.raised
       THEN [raised |-> FALSE, error |-> None, result |-> <<new_state>>,
             state |-> IF r.in_place THEN new_state ELSE r.state,
             engine |-> persist(eng1, new_state)]
       ELSE [raised |-> FALSE, error |-> None, result |-> <<error_state>>,
             state |-> error_state,
             engine |-> persist(eng1, error_state)]

\* faulty variant: the counter is taken from the engine's own count
evolve_counting(eng, s, f) ==
    LET eng1 == [eng EXCEPT !.transition_count = @ + 1]
        r == transition_fn(f, s)
        new_state == [r.value EXCEPT !.iteration_count = eng1.transition_count]
        error_state == log_error(r.state,
            "Transition '" \o f.kind \o "' failed: " \o r.error, None)
    IN IF ~r.raised
       THEN [raised |-> FALSE, error |-> None, result |-> <<new_state>>,
             state |-> IF r.in_place THEN new_state ELSE r.state,
             engine |-> persist(eng1, new_state)]
       ELSE [raised |-> TRUE, error |-> r.error, result |-> <<>>,
             state |-> error_state,
             engine |-> persist(eng1, error_state)]

\* DSEEEngine.evolve: `state` is the caller's object after the call, `result`
\* the returned state (none when the call raised).  new_state.iteration_count
\* is computed from `state` after transition_fn ran on it.  A callback that
\* raises on new_state does so inside the try block: the except branch logs
\* the failure on `state`, calls the callback again and that call raises.
evolve(eng, s, f) ==
    LET eng1 == [eng EXCEPT !.transition_count = @ + 1]
        r == transition_fn(f, s)
        new_state == [r.value EXCEPT !.iteration_count = r.state.iteration_count + 1]
        callback_fails == eng.persist_callback /\ eng.callback_raises
        error_state == log_error(r.state,
            "Transition '" \o f.kind \o "' failed: " \o r.error, None)
        persist_error_state ==
            log_error(IF r.in_place THEN new_state ELSE r.state,
                "Transition '" \o f.kind \o "' failed: persist failed", None)
    IN IF ~r.raised /\ ~callback_fails
       THEN [raised |-> FALSE, error |-> None, result |-> <<new_state>>,
             state |-> IF r.in_place THEN new_state ELSE r.state,
             engine |-> persist(eng1, new_state)]
       ELSE IF ~r.raised
       THEN [raised |-> TRUE, error |-> "persist failed", result |-> <<>>,
             state |-> persist_error_state,
             engine |-> persist(persist(eng1, new_state), persist_error_state)]
       ELSE [raised |-> TRUE,
             error |-> IF callback_fails THEN "persist failed" ELSE r.error,
             result |-> <<>>,
             state |-> error_state,
             engine |-> persist(eng1, error_state)]

\* the loop of batch_evolve: `current` is current_state, `caller` the value of
\* the object the caller passed in (one object with current_state exactly when
\* the values are equal: a copy differs in iteration_count), acc what the loop
\* did so far
RECURSIVE batch_loop(_, _, _, _, _)
batch_loop(eng, current, caller, transitions, acc) ==
    IF transitions = <<>>
    THEN [acc EXCEPT !.result = <<current>>, !.state = caller, !.engine = eng]
    ELSE LET r == evolve(eng, current, Head(transitions))
             acc1 == [acc EXCEPT !.invoked = Append(@, Head(transitions)),
                                 !.inputs = Append(@, current),
                                 !.results = @ \o r.result]
         IN IF r.raised
            THEN [acc1 EXCEPT !.raised = TRUE, !.error = r.error,
                              !.state = IF caller = current THEN r.state ELSE caller,
                              !.engine = r.engine]
            ELSE batch_loop(r.engine, r.result[1],
                            IF caller = current THEN r.state ELSE caller,
                            Tail(transitions), acc1)

\* DSEEEngine.batch_evolve
batch_evolve(eng, s, transitions) ==
    batch_loop(eng, s, s, transitions,
               [raised |-> FALSE, error |-> None, result |-> <<>>, state |-> s,
                engine |-> eng, invoked |-> <<>>, inputs |-> <<>>,
                results |-> <<>>])

---------------------------------------------------------------------------
(* Decide-next function *)

\* faulty variant: the selected specialist is looked at before requires_hitl
route_to_agent_agent_first(s) ==
    IF Truthy(s.error) THEN "end"
    ELSE IF Truthy(s.next_agent) THEN s.next_agent
    ELSE IF s.requires_hitl THEN "hitl_checkpoint"
    ELSE "end"

\* faulty variant: is_complete is not looked at
route_to_agent_no_complete_check(s) ==
    IF Truthy(s.error) THEN "end"
    ELSE IF s.requires_hitl THEN "hitl_checkpoint"
    ELSE IF s.iteration_count >= max_agent_iterations THEN "end"
    ELSE IF Truthy(s.next_agent) THEN s.next_agent
    ELSE "end"

\* faulty variant: a run with nothing left to do goes back to the router
route_to_agent_back_to_supervisor(s) ==
    IF Truthy(s.error) THEN "end"
    ELSE IF s.requires_hitl THEN "hitl_checkpoint"
    ELSE IF s.is_complete THEN "end"
    ELSE IF s.iteration_count >= max_agent_iterations THEN "end"
    ELSE IF Truthy(s.next_agent) THEN s.next_agent
    ELSE "supervisor"

route_to_agent(s) ==
    IF Truthy(s.error) THEN "end"
    ELSE IF s.requires_hitl THEN "hitl_checkpoint"
    ELSE IF s.is_complete THEN "end"
    ELSE IF s.iteration_count >= max_agent_iterations THEN "end"
    ELSE IF Truthy(s.next_agent) THEN s.next_agent
    ELSE "end"


---------------------------------------------------------------------------
(* Router node *)

\* secondary_agents lists the classification may return, unknown names included
SecondaryAgentLists == {<<>>, <<"finanzas">>, <<"tic", "bogus", "finanzas">>}

RouterDecision ==
    [selected_agent : AgentSlot \cup {"none"},
     requires_collaboration : BOOLEAN,
     secondary_agents : SecondaryAgentLists]

NoDecision ==
    [selected_agent |-> "none", requires_collaboration |-> FALSE,
     secondary_agents |-> <<>>]

\* what structured_llm.ainvoke does: it raises, or it returns a decision
ClassificationOutcomes ==
    {[raised |-> TRUE, error |-> e, decision |-> NoDecision] : e \in ErrorTexts}
    \cup {[raised |-> FALSE, error |-> None, decision |-> d] : d \in RouterDecision}

IsAgentSlot(name) == name \in AgentSlot

\* faulty variant: a "none" decision falls back to the first specialist
supervisor_node_default_agent(s, llm) ==
    LET s1 == log_thinking(s, "Analyzing user request", None) IN
    IF llm.raised
    THEN LET s2 == log_error(s1, "Routing error: " \o llm.error, None) IN
         [next_agent |-> None, error |-> llm.error, brain_log |-> s2.brain_log]
    ELSE LET s2 == log_decision(s1, "Routing to: " \o llm.decision.selected_agent, None)
             decision == llm.decision IN
         [next_agent |-> IF decision.selected_agent = "none" THEN "admisiones"
                         ELSE decision.selected_agent,
          brain_log |-> s2.brain_log]

\* faulty variant: the secondary names are taken as given
supervisor_node_unfiltered(s, llm) ==
    LET s1 == log_thinking(s, "Analyzing user request", None) IN
    IF llm.raised
    THEN LET s2 == log_error(s1, "Routing error: " \o llm.error, None) IN
         [next_agent |-> None, error |-> llm.error, brain_log |-> s2.brain_log]
    ELSE LET s2 == log_decision(s1, "Routing to: " \o llm.decision.selected_agent, None)
             decision == llm.decision IN
         IF decision.selected_agent = "none"
         THEN [next_agent |-> None, current_response |-> "clarify",
               brain_log |-> s2.brain_log]
         ELSE [next_agent |-> decision.selected_agent,
               delegation_chain |->
                   <<decision.selected_agent>> \o
                   (IF decision.requires_collaboration
                    THEN decision.secondary_agents
                    ELSE <<>>),
               brain_log |-> s2.brain_log]

supervisor_node(s, llm) ==
    LET s1 == log_thinking(s, "Analyzing user request", None) IN
    IF llm.raised
    THEN LET s2 == log_error(s1, "Routing error: " \o llm.error, None) IN
         [next_agent |-> None, error |-> llm.error, brain_log |-> s2.brain_log]
    ELSE LET s2 == log_decision(s1, "Routing to: " \o llm.decision.selected_agent, None)
             decision == llm.decision IN
         IF decision.selected_agent = "none"
         THEN [next_agent |-> None, current_response |-> "clarify",
               brain_log |-> s2.brain_log]
         ELSE [next_agent |-> decision.selected_agent,
               delegation_chain |->
                   <<decision.selected_agent>> \o
                   (IF decision.requires_collaboration
                    THEN SelectSeq(decision.secondary_agents, IsAgentSlot)
                    ELSE <<>>),
               brain_log |-> s2.brain_log]

---------------------------------------------------------------------------
(* Specialist nodes *)

ToolOutcomes == {"ok", "raised", "not_found"}

ToolCallLists == UNION {[1..n -> ToolOutcomes] : n \in 0..MaxToolCalls}

\* response.content of the model's answer; empty when it only called tools
ResponseContents == {"", "respuesta"}

\* what the agent's collaborators do: loading the agent from the database
\* raises, the model call raises, or the model answers (with tool calls)
AgentOutcomes ==
    {[kind |-> "load_raised", error |-> e, content |-> "", tool_calls |-> <<>>]
        : e \in ErrorTexts}
    \cup {[kind |-> "llm_raised", error |-> e, content |-> "", tool_calls |-> <<>>]
        : e \in ErrorTexts}
    \cup {[kind |-> "answered", error |-> None, content |-> c, tool_calls |-> tc]
        : c \in ResponseContents, tc \in ToolCallLists}

RECURSIVE process_tool_calls(_, _, _)
process_tool_calls(s, slot, tool_calls) ==
    IF tool_calls = <<>> THEN s
    ELSE LET s1 == log_action(s, "tool", slot)
             s2 == IF Head(tool_calls) = "ok" THEN log_observation(s1, "Resultado de tool", slot)
                   ELSE IF Head(tool_calls) = "raised"
                        THEN log_error(s1, "Error en tool: boom", slot)
                        ELSE log_error(s1, "Herramienta no encontrada: tool", slot)
         IN process_tool_calls(s2, slot, Tail(tool_calls))

\* faulty variant: the error a failed tool call left on the state is returned
process_returning_error(s, slot, outcome) ==
    LET s1 == log_thinking(s, "Iniciando procesamiento", slot) IN
    IF outcome.kind = "llm_raised"
    THEN LET s2 == log_error(s1, "Error en agente: " \o outcome.error, slot) IN
         [error |-> outcome.error, is_complete |-> TRUE, brain_log |-> s2.brain_log]
    ELSE LET s2 == process_tool_calls(s1, slot, outcome.tool_calls)
             s3 == log_decision(s2, "Respuesta generada", slot) IN
         [current_response |-> outcome.content, next_agent |-> None,
          is_complete |-> TRUE, error |-> s3.error, brain_log |-> s3.brain_log]

process(s, slot, outcome) ==
    LET s1 == log_thinking(s, "Iniciando procesamiento", slot) IN
    IF outcome.kind = "llm_raised"
    THEN LET s2 == log_error(s1, "Error en agente: " \o outcome.error, slot) IN
         [error |-> outcome.error, is_complete |-> TRUE, brain_log |-> s2.brain_log]
    ELSE LET s2 == process_tool_calls(s1, slot, outcome.tool_calls)
             s3 == log_decision(s2, "Respuesta generada", slot) IN
         [current_response |-> outcome.content, next_agent |-> None,
          is_complete |-> TRUE, brain_log |-> s3.brain_log]

process_agent(s, slot, outcome) ==
    IF outcome.kind = "load_raised"
    THEN LET s1 == log_error(s, "Error en agente: " \o outcome.error, slot) IN
         [error |-> outcome.error, is_complete |-> TRUE, brain_log |-> s1.brain_log]
    ELSE process(s, slot, outcome)

\* faulty variant: the node's log entries are not part of its update
agent_node_unlogged(s, slot, outcome) ==
    LET update == process_agent(s, slot, outcome) IN
    [k \in DOMAIN update \ {"brain_log"} |-> update[k]]

agent_node(s, slot, outcome) ==
    process_agent(log_thinking(mark_visited(s, slot), "Procesando solicitud", slot),
                  slot, outcome)

---------------------------------------------------------------------------
(* Approval store *)

FindRequest(table, request_id) ==
    {i \in DOMAIN table : table[i].id = request_id}

NewRequestId(table) == "req" \o ToString(Len(table) + 1)

\* create_hitl_request: the row it inserts, <<>> when it returns None
create_hitl_request(s, table, now, insert_ok) ==
    IF ~s.requires_hitl \/ ~Truthy(s.hitl_reason) THEN <<>>
    ELSE IF ~insert_ok THEN <<>>
    ELSE <<[id |-> NewRequestId(table),
            run_id |-> s.run_id,
            requested_by |-> IF s.visited_agents /= <<>>
                             THEN s.visited_agents[Len(s.visited_agents)]
                             ELSE "first_agent",
            reason |-> s.hitl_reason,
            status |-> "pending",
            reviewed_by |-> 0,    \* no reviewer yet
            reviewed_at |-> 0,    \* not reviewed yet
            created_at |-> now,
            expires_at |-> now + hitl_timeout_hours]>>

hitl_checkpoint_node(s, created) ==
    LET s1 == log_decision(s, "Esperando aprobacion humana", None) IN
    [hitl_request_id |-> IF created /= <<>> THEN created[1].id ELSE None,
     is_complete |-> TRUE,
     current_response |-> "hitl_espera",
     brain_log |-> s1.brain_log]

end_node(s) ==
    LET s1 == IF ~Truthy(s.final_response)
              THEN complete(s, IF Truthy(s.current_response)
                               THEN s.current_response
                               ELSE "Procesamiento completado.")
              ELSE s
        s2 == log_decision(s1, "Ejecucion finalizada", None) IN
    [is_complete |-> TRUE,
     final_response |-> IF Truthy(s2.final_response)
                        THEN s2.final_response ELSE s2.current_response,
     brain_log |-> s2.brain_log]


---------------------------------------------------------------------------
(* Calls on the state model and on the engine *)

MaxCalls == 3
MaxBatch == 2

NoFn == [kind |-> "none", arg |-> ""]

\* input, result: the state passed in and the state returned, when there is one
NoCall ==
    [op |-> "none", n |-> 0, f |-> NoFn, transitions |-> <<>>, input |-> <<>>,
     raised |-> FALSE, result |-> <<>>, invoked |-> <<>>, inputs |-> <<>>,
     results |-> <<>>]

LogOps == {"log_thinking", "log_action", "log_observation", "log_decision",
           "log_error"}

StateOps == LogOps \cup {"add_genui", "mark_visited", "request_hitl", "complete"}

\* the helper method `op` of CognitiveState called on s
state_op(op, s) ==
    CASE op = "log_thinking" -> log_thinking(s, "nota", None)
      [] op = "log_action" -> log_action(s, "tool", None)
      [] op = "log_observation" -> log_observation(s, "nota", None)
      [] op = "log_decision" -> log_decision(s, "nota", None)
      [] op = "log_error" -> log_error(s, "nota", None)
      [] op = "add_genui" -> add_genui(s, "card")
      [] op = "mark_visited" -> mark_visited(s, "finanzas")
      [] op = "request_hitl" -> request_hitl(s, "factura > $1,000,000")
      [] op = "complete" -> complete(s, "respuesta")

TransitionLists == UNION {[1..n -> TransitionFns] : n \in 0..MaxBatch}

---------------------------------------------------------------------------
(* Tables and calls outside the graph, before any call was made *)

NoCheckpoint == [id |-> 0, channel_values |-> <<>>]

NoCpCall ==
    [op |-> "none", n |-> 0, thread_id |-> "", checkpoint |-> NoCheckpoint,
     raised |-> FALSE, result |-> <<>>, before |-> {}]

\* a cancel_run call: the status it read, the status its update replaced and
\* the HTTP status it answered with
IdleCancel == [pc |-> "idle", run_id |-> None, current_status |-> None,
               replaced_status |-> None, http |-> None]

InitStores ==
    /\ graph_checkpoints = {}
    /\ cp_call = NoCpCall
    /\ brain_log_table = <<>>
    /\ cancel = IdleCancel

\* what graph.ainvoke returns: the channel values as a dict, which send_message
\* reads with final_state.get(...)
ainvoke_result(s) == [type |-> "dict", values |-> s]

\* hasattr(obj, name): the keys of a dict are not attributes of it
hasattr(obj, name) == obj.type = "object" /\ name \in DOMAIN obj.values

\* persist_brain_log: one insert of a row per entry, in the order of the log;
\* a failing insert is logged and nothing is stored
persist_brain_log(table, run_id, entries, insert_ok) ==
    IF entries = <<>> THEN table
    ELSE IF ~insert_ok THEN table
    ELSE table \o [i \in DOMAIN entries |->
                      [run_id |-> run_id, entry |-> entries[i]]]

---------------------------------------------------------------------------
(* One run: send_message builds the state and drives the graph *)

Reviewers == 1..NumReviewers

\* the states the graph is invoked with: the defaults send_message builds, and
\* CognitiveStates on which requires_hitl / hitl_reason, is_complete or
\* iteration_count were set before the graph is entered (by the constructor,
\* request_hitl or earlier transitions)
InitialIterations == {0, max_agent_iterations - 1, max_agent_iterations}

InitialFlags ==
    {[requires_hitl |-> FALSE, hitl_reason |-> None],
     [requires_hitl |-> TRUE, hitl_reason |-> None],
     [requires_hitl |-> TRUE, hitl_reason |-> ""],
     [requires_hitl |-> TRUE, hitl_reason |-> "factura > $1,000,000"]}

CognitiveState(flags, is_complete, iteration_count) ==
    [run_id |-> "run1",
     current_response |-> "",
     final_response |-> None,
     next_agent |-> None,
     visited_agents |-> <<>>,
     delegation_chain |-> <<>>,
     brain_log |-> <<>>,
     genui_payloads |-> <<>>,
     requires_hitl |-> flags.requires_hitl,
     hitl_reason |-> flags.hitl_reason,
     hitl_request_id |-> None,
     is_complete |-> is_complete,
     error |-> None,
     iteration_count |-> iteration_count]

NoResponse ==
    [delivered |-> FALSE, response |-> "", agent_used |-> None,
     requires_hitl |-> FALSE, hitl_request_id |-> None]

IdleReview ==
    [pc |-> "idle", request_id |-> None, status |-> None, http |-> None,
     request |-> <<>>, resumed |-> FALSE, resume_result |-> None]

Init ==
    /\ \E flags \in InitialFlags, c \in BOOLEAN, n \in InitialIterations :
           state = CognitiveState(flags, c, n)
    /\ initial_state = state
    /\ node = "__start__"
    /\ supersteps = 0
    /\ graph_invocations = 0
    /\ run_status = "running"
    /\ chat_response = NoResponse
    /\ hitl_requests = <<>>
    /\ reviews = [p \in Reviewers |-> IdleReview]
    /\ clock = 1
    /\ engine = DSEEEngine(FALSE)
    /\ call = NoCall
    /\ InitStores

\* graph.ainvoke(initial_state, config): the edge START -> supervisor
ainvoke ==
    /\ node = "__start__"
    /\ node' = "supervisor"
    /\ graph_invocations' = graph_invocations + 1
    /\ UNCHANGED <<engine, call, store_vars, state, initial_state, supersteps,
                   run_status, chat_response, hitl_requests, reviews, clock>>

\* the supervisor node and its conditional edge
supervisor_step ==
    /\ node = "supervisor"
    /\ \E llm \in ClassificationOutcomes :
           state' = Merge(state, supervisor_node(state, llm))
    /\ node' = route_to_agent(state')
    /\ supersteps' = supersteps + 1
    /\ UNCHANGED <<engine, call, store_vars, initial_state, graph_invocations,
                   run_status, chat_response, hitl_requests, reviews, clock>>

\* a specialist node and its conditional edge
agent_step ==
    /\ node \in AgentSlot
    /\ \E outcome \in AgentOutcomes :
           state' = Merge(state, agent_node(state, node, outcome))
    /\ node' = route_to_agent(state')
    /\ supersteps' = supersteps + 1
    /\ UNCHANGED <<engine, call, store_vars, initial_state, graph_invocations,
                   run_status, chat_response, hitl_requests, reviews, clock>>

\* the suspend node, which creates the approval request, and its edge to end
hitl_checkpoint_step ==
    /\ node = "hitl_checkpoint"
    /\ \E insert_ok \in BOOLEAN :
           LET created == create_hitl_request(
                              log_decision(state, "Esperando aprobacion humana", None),
                              hitl_requests, clock, insert_ok)
           IN /\ state' = Merge(state, hitl_checkpoint_node(state, created))
              /\ hitl_requests' = hitl_requests \o created
              /\ clock' = IF created /= <<>> THEN clock + 1 ELSE clock
    /\ node' = "end"
    /\ supersteps' = supersteps + 1
    /\ UNCHANGED <<engine, call, store_vars, initial_state, graph_invocations,
                   run_status, chat_response, reviews>>

\* the end node and its edge to END
end_step ==
    /\ node = "end"
    /\ state' = Merge(state, end_node(state))
    /\ node' = "__end__"
    /\ supersteps' = supersteps + 1
    /\ UNCHANGED <<engine, call, store_vars, initial_state, graph_invocations,
                   run_status, chat_response, hitl_requests, reviews, clock>>

\* send_message after graph.ainvoke returned final_state
send_message_return ==
    /\ node = "__end__"
    /\ ~chat_response.delivered
    /\ LET final_state == ainvoke_result(state)
           response_text ==
               IF Truthy(state.final_response) THEN state.final_response
               ELSE IF Truthy(state.current_response) THEN state.current_response
               ELSE ""
           visited == state.visited_agents
       IN /\ \E insert_ok \in BOOLEAN :
                 brain_log_table' =
                     IF hasattr(final_state, "brain_log")
                     THEN persist_brain_log(brain_log_table, state.run_id,
                                            final_state.values.brain_log, insert_ok)
                     ELSE brain_log_table
          /\ run_status' = "completed"
          /\ chat_response' =
                 [delivered |-> TRUE,
                  response |-> response_text,
                  agent_used |-> IF visited /= <<>> THEN visited[Len(visited)]
                                 ELSE None,
                  requires_hitl |-> state.requires_hitl,
                  hitl_request_id |-> state.hitl_request_id]
    /\ UNCHANGED <<engine, call, graph_checkpoints, cp_call, cancel, state,
                   initial_state, node, supersteps, graph_invocations,
                   hitl_requests, reviews, clock>>

---------------------------------------------------------------------------
(* Review endpoint *)

HITLStatus == {"pending", "approved", "rejected", "expired"}

\* the ids a review call may carry: those of the stored requests and one that
\* names no request
ReviewableIds == {hitl_requests[i].id : i \in DOMAIN hitl_requests}
                 \cup {"req-unknown"}

\* review_hitl_request: UPDATE hitl_requests SET ... WHERE id = request_id
review_hitl_request(table, request_id, status, reviewer_id, now) ==
    [i \in DOMAIN table |->
        IF table[i].id = request_id
        THEN [table[i] EXCEPT !.status = status,
                              !.reviewed_by = reviewer_id,
                              !.reviewed_at = now]
        ELSE table[i]]

\* resume_after_hitl: what it returns for the stored request
resume_after_hitl(table, request_id) ==
    LET found == FindRequest(table, request_id) IN
    IF found = {} THEN None
    ELSE LET request == table[CHOOSE i \in found : TRUE] IN
         IF request.status /= "approved" THEN "not_approved"
         ELSE "resumed"

\* review_request up to the return of review_hitl_request
review_request(p) ==
    /\ reviews[p].pc = "idle"
    /\ \E request_id \in ReviewableIds, status \in HITLStatus :
       IF status \notin {"approved", "rejected"}
       THEN /\ reviews' = [reviews EXCEPT ![p] =
                   [@ EXCEPT !.pc = "done", !.request_id = request_id,
                             !.status = status, !.http = 400]]
            /\ UNCHANGED <<engine, call, store_vars, hitl_requests, clock>>
       ELSE LET updated == review_hitl_request(hitl_requests, request_id, status,
                                               p, clock)
                found == FindRequest(hitl_requests, request_id)
            IN IF found = {}
               THEN /\ reviews' = [reviews EXCEPT ![p] =
                           [@ EXCEPT !.pc = "done", !.request_id = request_id,
                                     !.status = status, !.http = 404]]
                    /\ UNCHANGED <<engine, call, store_vars, hitl_requests,
                                   clock>>
               ELSE /\ hitl_requests' = updated
                    /\ clock' = clock + 1
                    /\ reviews' = [reviews EXCEPT ![p] =
                           [@ EXCEPT !.pc = IF status = "approved"
                                            THEN "resume" ELSE "done",
                                     !.request_id = request_id,
                                     !.status = status,
                                     !.http = 200,
                                     !.request =
                                         <<updated[CHOOSE i \in found : TRUE]>>]]
    /\ UNCHANGED <<engine, call, store_vars, state, initial_state, node,
                   supersteps, graph_invocations, run_status, chat_response>>

\* review_request from the call of resume_after_hitl to its return
review_resume(p) ==
    /\ reviews[p].pc = "resume"
    /\ LET resume_result == resume_after_hitl(hitl_requests, reviews[p].request_id)
       IN reviews' = [reviews EXCEPT ![p] =
              [@ EXCEPT !.pc = "done",
                        !.resume_result = resume_result,
                        !.resumed = (resume_result /= None)]]
    /\ UNCHANGED <<engine, call, store_vars, state, initial_state, node,
                   supersteps, graph_invocations, run_status, chat_response,
                   hitl_requests, clock>>

---------------------------------------------------------------------------

Next ==
    \/ ainvoke
    \/ supervisor_step
    \/ agent_step
    \/ hitl_checkpoint_step
    \/ end_step
    \/ send_message_return
    \/ \E p \in Reviewers : review_request(p)
    \/ \E p \in Reviewers : review_resume(p)

Spec == Init /\ [][Next]_vars


---------------------------------------------------------------------------
(* The iteration ceiling under a specialist that never completes *)

MaxSupersteps == 13

\* the scenario's specialist: it reports what it did, selects itself again
\* and sets none of is_complete, requires_hitl, error
misbehaving_node(s, slot) ==
    LET s1 == log_thinking(mark_visited(s, slot), "Procesando solicitud", slot) IN
    [next_agent |-> slot, brain_log |-> s1.brain_log]

misbehaving_step ==
    /\ node \in AgentSlot
    /\ supersteps < MaxSupersteps
    /\ state' = Merge(state, misbehaving_node(state, node))
    /\ node' = route_to_agent(state')
    /\ supersteps' = supersteps + 1
    /\ UNCHANGED <<engine, call, store_vars, initial_state, graph_invocations,
                   run_status, chat_response, hitl_requests, reviews, clock>>

NextCeiling ==
    \/ ainvoke
    \/ supervisor_step
    \/ misbehaving_step
    \/ hitl_checkpoint_step
    \/ end_step
    \/ send_message_return

SpecCeiling == Init /\ [][NextCeiling]_vars

---------------------------------------------------------------------------
(* Specialists whose model answers with several tool calls *)

MaxToolBatch == 2

\* answers that carry between one and MaxToolBatch tool calls
ToolBatchOutcomes ==
    {[kind |-> "answered", error |-> None, content |-> c, tool_calls |-> tc]
        : c \in ResponseContents,
          tc \in UNION {[1..n -> ToolOutcomes] : n \in 1..MaxToolBatch}}

\* a specialist node given such an answer, and its conditional edge
agent_tools_step ==
    /\ node \in AgentSlot
    /\ \E outcome \in ToolBatchOutcomes :
           state' = Merge(state, agent_node(state, node, outcome))
    /\ node' = route_to_agent(state')
    /\ supersteps' = supersteps + 1
    /\ UNCHANGED <<engine, call, store_vars, initial_state, graph_invocations,
                   run_status, chat_response, hitl_requests, reviews, clock>>

NextTools ==
    \/ ainvoke
    \/ supervisor_step
    \/ agent_tools_step
    \/ hitl_checkpoint_step
    \/ end_step
    \/ send_message_return

SpecTools == Init /\ [][NextTools]_vars

---------------------------------------------------------------------------
(* Cancel endpoint, called while the run executes *)

\* the ids a cancel call may carry: the run's and one that names no run
CancellableIds == {"run1", "run-unknown"}

\* cancel_run up to its update: the read of the run's status and the checks
\* made on it
cancel_check ==
    /\ cancel.pc = "idle"
    /\ \E run_id \in CancellableIds :
           cancel' =
               IF run_id /= state.run_id
               THEN [cancel EXCEPT !.pc = "done", !.run_id = run_id, !.http = 404]
               ELSE IF run_status \notin {"queued", "running"}
               THEN [cancel EXCEPT !.pc = "done", !.run_id = run_id,
                                   !.current_status = run_status, !.http = 400]
               ELSE [cancel EXCEPT !.pc = "update", !.run_id = run_id,
                                   !.current_status = run_status]
    /\ UNCHANGED <<engine, call, graph_checkpoints, cp_call, brain_log_table,
                   state, initial_state, node, supersteps, graph_invocations,
                   run_status, chat_response, hitl_requests, reviews, clock>>

\* cancel_run from its update to its return:
\* UPDATE agent_runs SET status = 'cancelled' WHERE id = run_id
cancel_update ==
    /\ cancel.pc = "update"
    /\ run_status' = "cancelled"
    /\ cancel' = [cancel EXCEPT !.pc = "done", !.replaced_status = run_status,
                                !.http = 200]
    /\ UNCHANGED <<engine, call, graph_checkpoints, cp_call, brain_log_table,
                   state, initial_state, node, supersteps, graph_invocations,
                   chat_response, hitl_requests, reviews, clock>>

NextCancel ==
    \/ ainvoke
    \/ supervisor_step
    \/ agent_step
    \/ hitl_checkpoint_step
    \/ end_step
    \/ send_message_return
    \/ cancel_check
    \/ cancel_update

SpecCancel == Init /\ [][NextCancel]_vars

---------------------------------------------------------------------------
(* Approval requests left pending past their expiry *)

\* datetime.utcnow() moves past the expiry of every request created so far
time_passes ==
    /\ clock <= hitl_timeout_hours
    /\ clock' = clock + hitl_timeout_hours
    /\ UNCHANGED <<engine, call, store_vars, state, initial_state, node,
                   supersteps, graph_invocations, run_status, chat_response,
                   hitl_requests, reviews>>

NextExpiry ==
    \/ ainvoke
    \/ supervisor_step
    \/ agent_step
    \/ hitl_checkpoint_step
    \/ end_step
    \/ send_message_return
    \/ time_passes
    \/ review_request(1)
    \/ review_resume(1)

SpecExpiry == Init /\ [][NextExpiry]_vars

---------------------------------------------------------------------------
(* Checkpointer *)

MaxCpCalls == 3
MaxCheckpointId == 2

ThreadIds == {"run1", "run2"}

\* config["configurable"]["thread_id"], "" when the config carries none
ConfigThreadIds == ThreadIds \cup {""}

\* checkpoint ids, in the order the store sorts them
CheckpointIds == 1..MaxCheckpointId

DefaultState ==
    CognitiveState([requires_hitl |-> FALSE, hitl_reason |-> None], FALSE, 0)

\* channel_values of a checkpoint: the run state's fields, either as JSON
\* types only or holding objects json.dumps cannot encode (UUID, datetime,
\* BrainLogEntry)
ChannelValues ==
    {[serializable |-> TRUE, state |-> [DefaultState EXCEPT !.next_agent = "finanzas"]],
     [serializable |-> TRUE, state |-> [DefaultState EXCEPT !.error = "boom"]],
     [serializable |-> FALSE, state |-> [DefaultState EXCEPT !.next_agent = "finanzas"]]}

Checkpoints == [id : CheckpointIds, channel_values : ChannelValues]

\* json.dumps: raises TypeError on an object it cannot encode
json_dumps(v) ==
    [raised |-> ~v.serializable, text |-> [json |-> v.state]]

\* faulty variant: next_agent is not restored
json_loads_losing_next_agent(text) ==
    [serializable |-> TRUE, state |-> [text.json EXCEPT !.next_agent = None]]

\* json.loads: what it yields holds JSON types only
json_loads(text) ==
    [serializable |-> TRUE, state |-> text.json]

\* table("graph_checkpoints").upsert(row): the row replaces the stored row
\* with its key (thread_id, checkpoint_id), or is added
upsert(table, row) ==
    {r \in table : ~(r.thread_id = row.thread_id
                     /\ r.checkpoint_id = row.checkpoint_id)} \cup {row}

\* SupabaseCheckpointer.get_tuple: the CheckpointTuple, <<>> for None; a
\* failing select is logged and None returned
get_tuple(table, thread_id, select_ok) ==
    LET rows == {r \in table : r.thread_id = thread_id} IN
    IF ~Truthy(thread_id) THEN <<>>
    ELSE IF ~select_ok THEN <<>>
    ELSE IF rows = {} THEN <<>>
    ELSE LET row == CHOOSE r \in rows :
                        \A q \in rows : q.checkpoint_id <= r.checkpoint_id
         IN <<[thread_id |-> thread_id,
               checkpoint |-> [id |-> row.checkpoint_id,
                               channel_values |-> json_loads(row.channel_values)]]>>

\* SupabaseCheckpointer.put: whether it raised and the table afterwards
put(table, thread_id, checkpoint, upsert_ok) ==
    LET d == json_dumps(checkpoint.channel_values) IN
    IF ~Truthy(thread_id) THEN [raised |-> TRUE, table |-> table]
    ELSE IF d.raised THEN [raised |-> TRUE, table |-> table]
    ELSE IF ~upsert_ok THEN [raised |-> TRUE, table |-> table]
    ELSE [raised |-> FALSE,
          table |-> upsert(table, [thread_id |-> thread_id,
                                   checkpoint_id |-> checkpoint.id,
                                   channel_values |-> d.text])]

InitCheckpoint == Init /\ state = DefaultState

put_call ==
    /\ cp_call.n < MaxCpCalls
    /\ \E thread_id \in ConfigThreadIds, checkpoint \in Checkpoints,
          upsert_ok \in BOOLEAN :
           LET r == put(graph_checkpoints, thread_id, checkpoint, upsert_ok) IN
           /\ graph_checkpoints' = r.table
           /\ cp_call' = [NoCpCall EXCEPT !.op = "put", !.n = cp_call.n + 1,
                                          !.thread_id = thread_id,
                                          !.checkpoint = checkpoint,
                                          !.raised = r.raised,
                                          !.before = graph_checkpoints]
    /\ UNCHANGED <<state, initial_state, node, supersteps, graph_invocations,
                   run_status, chat_response, hitl_requests, reviews, clock,
                   engine, call, brain_log_table, cancel>>

get_tuple_call ==
    /\ cp_call.n < MaxCpCalls
    /\ \E thread_id \in ConfigThreadIds, select_ok \in BOOLEAN :
           cp_call' = [NoCpCall EXCEPT
                          !.op = "get_tuple", !.n = cp_call.n + 1,
                          !.thread_id = thread_id,
                          !.result = get_tuple(graph_checkpoints, thread_id,
                                               select_ok),
                          !.before = graph_checkpoints]
    /\ UNCHANGED <<state, initial_state, node, supersteps, graph_invocations,
                   run_status, chat_response, hitl_requests, reviews, clock,
                   engine, call, graph_checkpoints, brain_log_table, cancel>>

NextCheckpoint ==
    \/ put_call
    \/ get_tuple_call

SpecCheckpoint == InitCheckpoint /\ [][NextCheckpoint]_vars

---------------------------------------------------------------------------
(* A run state driven through the state model and the engine *)

graph_vars == <<initial_state, node, supersteps, graph_invocations, run_status,
                chat_response, hitl_requests, reviews, clock, store_vars>>

InitDSEE ==
    /\ \E n \in InitialIterations :
           state = CognitiveState([requires_hitl |-> FALSE, hitl_reason |-> None],
                                  FALSE, n)
    /\ initial_state = state
    /\ node = "__start__"
    /\ supersteps = 0
    /\ graph_invocations = 0
    /\ run_status = "running"
    /\ chat_response = NoResponse
    /\ hitl_requests = <<>>
    /\ reviews = [p \in Reviewers |-> IdleReview]
    /\ clock = 1
    /\ \E persist_callback \in BOOLEAN : engine = DSEEEngine(persist_callback)
    /\ call = NoCall
    /\ InitStores

\* state.<op>(...) called directly on the run state
state_operation ==
    /\ call.n < MaxCalls
    /\ \E op \in StateOps :
           /\ state' = state_op(op, state)
           /\ call' = [NoCall EXCEPT !.op = op, !.n = call.n + 1,
                                     !.input = <<state>>, !.result = <<state'>>]
    /\ UNCHANGED <<engine, graph_vars>>

\* state = engine.evolve(state, f, name); when evolve raises the caller is
\* left with the object it passed in
evolve_call ==
    /\ call.n < MaxCalls
    /\ \E f \in TransitionFns :
           LET r == evolve(engine, state, f) IN
           /\ state' = IF r.raised THEN r.state ELSE r.result[1]
           /\ engine' = r.engine
           /\ call' = [NoCall EXCEPT !.op = "evolve", !.n = call.n + 1, !.f = f,
                                     !.input = <<state>>, !.raised = r.raised,
                                     !.result = r.result]
    /\ UNCHANGED graph_vars

NextDSEE ==
    \/ state_operation
    \/ evolve_call

SpecDSEE == InitDSEE /\ [][NextDSEE]_vars

\* state = engine.batch_evolve(state, transitions), one call
batch_evolve_call ==
    /\ call.op = "none"
    /\ \E transitions \in TransitionLists :
           LET r == batch_evolve(engine, state, transitions) IN
           /\ state' = IF r.raised THEN r.state ELSE r.result[1]
           /\ engine' = r.engine
           /\ call' = [NoCall EXCEPT !.op = "batch_evolve", !.n = 1,
                                     !.transitions = transitions,
                                     !.input = <<state>>, !.raised = r.raised,
                                     !.result = r.result, !.invoked = r.invoked,
                                     !.inputs = r.inputs, !.results = r.results]
    /\ UNCHANGED graph_vars

\* an engine whose persistence callback may raise
InitCallback ==
    /\ \E n \in InitialIterations :
           state = CognitiveState([requires_hitl |-> FALSE, hitl_reason |-> None],
                                  FALSE, n)
    /\ initial_state = state
    /\ node = "__start__"
    /\ supersteps = 0
    /\ graph_invocations = 0
    /\ run_status = "running"
    /\ chat_response = NoResponse
    /\ hitl_requests = <<>>
    /\ reviews = [p \in Reviewers |-> IdleReview]
    /\ clock = 1
    /\ \E raises \in BOOLEAN :
           engine = [DSEEEngine(TRUE) EXCEPT !.callback_raises = raises]
    /\ call = NoCall
    /\ InitStores

SpecCallback == InitCallback /\ [][NextDSEE]_vars

NextBatch == batch_evolve_call

SpecBatch == InitDSEE /\ [][NextBatch]_vars

---------------------------------------------------------------------------
(* Claims *)

HasEntry(log, content) == \E i \in DOMAIN log : log[i].content = content

HitlCheckpointExecuted == HasEntry(state.brain_log, "Esperando aprobacion humana")

\* C1: route_to_agent decides in strict priority order: END when error is
\* set, whatever the other fields; else the suspend node when requires_hitl;
\* else END when is_complete; else END when the iteration ceiling is reached;
\* else next_agent when set, END otherwise.
C1_PriorityOrder ==
    route_to_agent(state) =
        IF state.error /= None THEN "end"
        ELSE IF state.requires_hitl THEN "hitl_checkpoint"
        ELSE IF state.is_complete THEN "end"
        ELSE IF state.iteration_count >= max_agent_iterations THEN "end"
        ELSE IF state.next_agent /= None THEN state.next_agent
        ELSE "end"

\* C2: after N node executions iteration_count is its initial value plus N.
C2_IterationCountsSteps ==
    state.iteration_count = initial_state.iteration_count + supersteps

\* C3: a specialist that is re-selected forever runs at most max_iterations
\* times; the executor then forces END with error unset.
C3_CeilingForcesEnd ==
    /\ Cardinality({i \in DOMAIN state.brain_log :
           state.brain_log[i].content = "Procesando solicitud"})
       <= max_agent_iterations
    /\ (supersteps > max_agent_iterations => node \in {"end", "__end__"})


\* a review call that got past the update of the stored request
Reviewed(p) == reviews[p].request /= <<>>

\* C4: of two review calls that both move the same pending request to
\* approved, exactly one performs the transition; the other observes a
\* conflict and does not report a successful review.
C4_OneApprovalWins ==
    \A p, q \in Reviewers :
        (/\ p /= q
         /\ reviews[p].status = "approved" /\ reviews[q].status = "approved"
         /\ reviews[p].request_id = reviews[q].request_id
         /\ reviews[p].pc \in {"resume", "done"}
         /\ reviews[q].pc \in {"resume", "done"})
        => ~(reviews[p].http = 200 /\ reviews[q].http = 200)

\* C5: for one approval request, resume of its run is triggered at most once
\* under any sequence or interleaving of review calls.
C5_ResumeAtMostOnce ==
    \A i \in DOMAIN hitl_requests :
        Cardinality({p \in Reviewers :
            /\ reviews[p].request_id = hitl_requests[i].id
            /\ reviews[p].resume_result = "resumed"}) <= 1

\* C6: the status of an approval request leaves pending once; approved,
\* rejected and expired never change again.
C6_TerminalStatusStays ==
    [][\A i \in DOMAIN hitl_requests :
          hitl_requests[i].status \in {"approved", "rejected", "expired"}
          => hitl_requests'[i].status = hitl_requests[i].status]_vars

\* C7: once the approval request of a suspended run was rejected, no resume
\* is performed for it: a resume belongs to a review made before the
\* rejection.
C7_RejectedNeverResumes ==
    \A p, q \in Reviewers :
        (/\ Reviewed(p) /\ Reviewed(q)
         /\ reviews[p].request[1].id = reviews[q].request[1].id
         /\ reviews[p].request[1].status = "rejected"
         /\ reviews[q].resume_result = "resumed")
        => reviews[q].request[1].reviewed_at < reviews[p].request[1].reviewed_at

\* C8: a resume after approval re-enters the graph executor for the run, with
\* requires_hitl cleared.
C8_ResumeReentersGraph ==
    \A p \in Reviewers :
        reviews[p].resume_result = "resumed"
        => graph_invocations > 1 /\ ~state.requires_hitl

\* C9: when requires_hitl is set with a reason and the suspend node has
\* run, an approval request of the run exists, created pending with
\* expiry = creation + timeout > creation, and the caller receives its id.
C9_SuspendCreatesRequest ==
    (HitlCheckpointExecuted /\ Truthy(state.hitl_reason))
    => \E i \in DOMAIN hitl_requests :
           LET r == hitl_requests[i] IN
           /\ r.run_id = state.run_id
           /\ r.id = state.hitl_request_id
           /\ r.expires_at = r.created_at + hitl_timeout_hours
           /\ r.expires_at > r.created_at
           /\ (r.reviewed_at = 0 => r.status = "pending")
           /\ (chat_response.delivered =>
                  /\ chat_response.requires_hitl
                  /\ chat_response.hitl_request_id = r.id)

\* C10: a run that suspended for approval is not finished: its
\* final_response stays unset and the run is not recorded as completed.
C10_SuspendIsNotCompletion ==
    (chat_response.delivered /\ HitlCheckpointExecuted)
    => /\ state.final_response = None
       /\ run_status /= "completed"

\* a specialist node has executed in this run
SpecialistExecuted == HasEntry(state.brain_log, "Procesando solicitud")

\* C11: once requires_hitl is true, no specialist node executes before the
\* suspend node: while requires_hitl is set the executor never stands at a
\* specialist node, and no specialist has run.
C11_SuspendBeforeSpecialist ==
    state.requires_hitl => (node \notin AgentSlot /\ ~SpecialistExecuted)

\* the router selected a specialist and the executor goes to the suspend node
C11_Witness ==
    /\ state.requires_hitl
    /\ state.next_agent \in AgentSlot
    /\ node = "hitl_checkpoint"

C13_EveryNodeThroughEvolve ==
    engine.transition_count = supersteps

Last(seq) == seq[Len(seq)]

IsPrefix(a, b) == Len(a) <= Len(b) /\ SubSeq(b, 1, Len(a)) = a

\* C14: when the transition function does not fail, evolve returns a state
\* whose iteration_count is the input's plus one, whatever the function did
\* to the counter, and a configured persistence callback received that state.
C14_EvolveIncrementsOnce ==
    (call.op = "evolve" /\ ~call.raised)
    => /\ call.result[1].iteration_count = call.input[1].iteration_count + 1
       /\ (engine.persist_callback
              => /\ engine.persisted /= <<>>
                 /\ Last(engine.persisted) = call.result[1])

\* C15: when the transition function raises, evolve does not return: it
\* raises, after appending to the caller's state one ERROR entry that
\* describes the failure.
C15_FailureLoggedAndRaised ==
    (call.op = "evolve" /\ transition_fn(call.f, call.input[1]).raised)
    => LET r == transition_fn(call.f, call.input[1])
           log == state.brain_log
       IN /\ call.raised
          /\ call.result = <<>>
          /\ Len(log) = Len(r.state.brain_log) + 1
          /\ IsPrefix(r.state.brain_log, log)
          /\ Last(log).step_type = "error"
          /\ Last(log).content =
                 "Transition '" \o call.f.kind \o "' failed: " \o r.error
          /\ (engine.persist_callback => Last(engine.persisted) = state)

\* transition_start_agent was given a name that is no agent slot
C15_Witness ==
    /\ call.op = "evolve"
    /\ call.f.kind = "start_agent"
    /\ call.raised
    /\ Last(state.brain_log).step_type = "error"

\* C16: batch_evolve invokes the transitions in list order, each on the
\* result of the one before; it stops at the first that fails and raises;
\* when none fails the result's iteration_count is the input's plus the
\* number of transitions.
C16_BatchSequential ==
    call.op = "batch_evolve"
    => LET fs == call.transitions
           k == Len(call.invoked)
           Fails(i) == transition_fn(fs[i], call.inputs[i]).raised
       IN /\ k <= Len(fs)
          /\ call.invoked = SubSeq(fs, 1, k)
          /\ \A i \in 1..k :
                 call.inputs[i] = IF i = 1 THEN call.input[1]
                                  ELSE call.results[i - 1]
          /\ \A i \in 1..(k - 1) : ~Fails(i)
          /\ call.raised <=> (k >= 1 /\ Fails(k))
          /\ call.raised => call.result = <<>>
          /\ ~call.raised
                => /\ k = Len(fs)
                   /\ call.result[1].iteration_count =
                          call.input[1].iteration_count + Len(fs)

C18_AuditLogAppendOnly ==
    [][IsPrefix(state.brain_log, state'.brain_log)]_vars

\* a failed evolve after other calls had written to the log
C18_Witness ==
    /\ call.op = "evolve"
    /\ call.raised
    /\ Len(state.brain_log) >= 3

StepTypeOf(op) ==
    CASE op = "log_thinking" -> "thinking"
      [] op = "log_action" -> "action"
      [] op = "log_observation" -> "observation"
      [] op = "log_decision" -> "decision"
      [] op = "log_error" -> "error"

\* C19: a log operation appends exactly one entry of its kind, returns the
\* state it was called on and changes no other field.
C19_LogOpsOnlyAppend ==
    call.op \in LogOps
    => LET before == call.input[1] IN
       /\ call.result = <<state>>
       /\ Len(state.brain_log) = Len(before.brain_log) + 1
       /\ IsPrefix(before.brain_log, state.brain_log)
       /\ Last(state.brain_log).step_type = StepTypeOf(call.op)
       /\ state = [before EXCEPT !.brain_log = state.brain_log]

\* the router logged a failure of the classification service
RoutingFailed ==
    \E e \in ErrorTexts : HasEntry(state.brain_log, "Routing error: " \o e)

DecidedNone == HasEntry(state.brain_log, "Routing to: none")

\* C21: on the decision "none" the router leaves next_agent unset, sets the
\* clarification response and no error; the run goes on to END and no
\* specialist node executes (visited_agents stays empty).
C21_NoneAsksForClarification ==
    DecidedNone
    => /\ state.next_agent = None
       /\ state.error = None
       /\ state.visited_agents = <<>>
       /\ node \notin AgentSlot
       /\ ~SpecialistExecuted
       /\ (supersteps = 1
              => /\ state.current_response = "clarify"
                 /\ node \in {"end", "hitl_checkpoint"}
                 /\ (~state.requires_hitl => node = "end"))
       /\ (node = "__end__" /\ ~HitlCheckpointExecuted
              => state.final_response = "clarify")

\* the run ended with the clarification as its response
C21_Witness ==
    /\ DecidedNone
    /\ node = "__end__"
    /\ state.final_response = "clarify"

ThreadRows(table, thread_id) == {r \in table : r.thread_id = thread_id}

\* the greatest checkpoint id stored for the thread, 0 when it has none
LatestId(table, thread_id) ==
    IF ThreadRows(table, thread_id) = {} THEN 0
    ELSE CHOOSE i \in CheckpointIds :
             /\ \E r \in ThreadRows(table, thread_id) : r.checkpoint_id = i
             /\ \A r \in ThreadRows(table, thread_id) : r.checkpoint_id <= i

\* C22: a put whose checkpoint id is not greater than the latest id stored
\* for its thread is rejected and leaves the stored snapshots unchanged.
C22_StaleWriteRejected ==
    (/\ cp_call.op = "put"
     /\ Truthy(cp_call.thread_id)
     /\ cp_call.checkpoint.id <= LatestId(cp_call.before, cp_call.thread_id))
    => (cp_call.raised /\ graph_checkpoints = cp_call.before)

\* C23: get_tuple returns the thread's snapshot with the greatest checkpoint
\* id, nothing when the thread has none and never another thread's; a put
\* followed by get_tuple gives back the checkpoint that was put.
C23_GetTupleLatest ==
    /\ cp_call.op = "get_tuple"
          => IF ThreadRows(graph_checkpoints, cp_call.thread_id) = {}
             THEN cp_call.result = <<>>
             ELSE /\ cp_call.result /= <<>>
                  /\ cp_call.result[1].thread_id = cp_call.thread_id
                  /\ cp_call.result[1].checkpoint.id =
                         LatestId(graph_checkpoints, cp_call.thread_id)
    /\ (/\ cp_call.op = "put"
        /\ ~cp_call.raised
        /\ cp_call.checkpoint.id >= LatestId(cp_call.before, cp_call.thread_id))
          => get_tuple(graph_checkpoints, cp_call.thread_id, TRUE)
                = <<[thread_id |-> cp_call.thread_id,
                     checkpoint |-> cp_call.checkpoint]>>

---------------------------------------------------------------------------

CancelledOk == cancel.pc = "done" /\ cancel.http = 200

\* C25: once cancel_run has cancelled the run, no further node is invoked for
\* it and its stored status stays "cancelled"
C25_CancelHonoured ==
    [][CancelledOk => /\ supersteps' = supersteps
                      /\ run_status' = "cancelled"]_vars

\* C26: cancel_run answers 200 only for a run whose status is queued or
\* running when the update replaces it, 404 for an unknown run, and 400 for a
\* run already completed, failed or cancelled
C26_CancelOnlyActiveRun ==
    /\ CancelledOk => cancel.replaced_status \in {"queued", "running"}
    /\ (cancel.pc = "done" /\ cancel.run_id /= state.run_id) => cancel.http = 404
    /\ (cancel.pc = "done" /\ cancel.http = 400) =>
           cancel.current_status \in {"completed", "failed", "cancelled"}

Expired(request, now) == request.status = "pending" /\ now > request.expires_at

\* C27: a request still pending after its expiry time is never moved to
\* approved
C27_ExpiredNeverApproved ==
    [][\A i \in DOMAIN hitl_requests :
           Expired(hitl_requests[i], clock) =>
               hitl_requests'[i].status /= "approved"]_vars

\* the three outcomes a caller may be given
FinalResponseOutcome ==
    /\ run_status = "completed"
    /\ ~chat_response.requires_hitl
    /\ state.error = None
    /\ Truthy(chat_response.response)

SuspendedOutcome ==
    /\ chat_response.requires_hitl
    /\ chat_response.hitl_request_id /= None

ErrorOutcome == run_status \in {"failed", "cancelled"}

\* C28: a run that was answered has exactly one of the three outcomes, and
\* one that ended with error set has the status failed
C28_OneOutcome ==
    chat_response.delivered =>
        /\ \/ FinalResponseOutcome /\ ~SuspendedOutcome /\ ~ErrorOutcome
           \/ SuspendedOutcome /\ ~FinalResponseOutcome /\ ~ErrorOutcome
           \/ ErrorOutcome /\ ~FinalResponseOutcome /\ ~SuspendedOutcome
        /\ state.error /= None => run_status = "failed"

\* the entries stored in the brain_log table for a run, in the table's order
RECURSIVE StoredEntries(_, _)
StoredEntries(table, run_id) ==
    IF table = <<>> THEN <<>>
    ELSE (IF Head(table).run_id = run_id THEN <<Head(table).entry>> ELSE <<>>)
         \o StoredEntries(Tail(table), run_id)

\* C29: when send_message has answered, the brain_log table holds the entries
\* of the run's final audit log, in the log's order
C29_AuditLogPersisted ==
    chat_response.delivered =>
        StoredEntries(brain_log_table, state.run_id) = state.brain_log

Signals == {"next_agent", "is_complete", "requires_hitl", "error"}

\* the signals a node's update sets: the keys it returns with a value that is
\* neither None, False nor empty
SetSignals(update) ==
    {k \in Signals \cap DOMAIN update :
        IF k \in {"is_complete", "requires_hitl"} THEN update[k]
        ELSE Truthy(update[k])}

\* C30: whatever its collaborators do, the update a specialist node returns
\* sets exactly one of next_agent, is_complete, requires_hitl and error
C30_ExactlyOneSignal ==
    node \in AgentSlot =>
        \A outcome \in AgentOutcomes :
            Cardinality(SetSignals(agent_node(state, node, outcome))) = 1

---------------------------------------------------------------------------

ToolFailures(tool_calls) == {i \in DOMAIN tool_calls : tool_calls[i] /= "ok"}

CountEntries(log, step_type) ==
    Cardinality({i \in DOMAIN log : log[i].step_type = step_type})

\* C31: a specialist whose tool calls fail logs one ERROR entry per failed
\* call, still makes every tool call of the answer, returns its response with
\* is_complete, and leaves the run state's error unset, so that the route
\* taken is the one of a normal completion
C31_ToolFailureNotFatal ==
    node \in AgentSlot =>
        \A outcome \in ToolBatchOutcomes :
            ToolFailures(outcome.tool_calls) /= {} =>
                LET update == agent_node(state, node, outcome)
                    added == SubSeq(update.brain_log, Len(state.brain_log) + 1,
                                    Len(update.brain_log))
                    after == Merge(state, update)
                IN /\ CountEntries(added, "error")
                          = Cardinality(ToolFailures(outcome.tool_calls))
                   /\ CountEntries(added, "action") = Len(outcome.tool_calls)
                   /\ update.current_response = outcome.content
                   /\ update.is_complete
                   /\ ~Truthy(after.error)
                   /\ route_to_agent(after) = "end"

\* a run in which the first tool call of a specialist raised, the second
\* was made, and the response was returned
C31_Witness ==
    /\ node = "end"
    /\ HasEntry(state.brain_log, "Error en tool: boom")
    /\ CountEntries(state.brain_log, "action") = 2
    /\ CountEntries(state.brain_log, "observation") = 1
    /\ state.current_response = "respuesta"
    /\ state.error = None

---------------------------------------------------------------------------

\* the nodes that wrote to an audit log, in order: each node opens with an
\* entry of its own
RECURSIVE ExecutedNodes(_)
ExecutedNodes(log) ==
    IF log = <<>> THEN <<>>
    ELSE LET e == Head(log)
             rest == ExecutedNodes(Tail(log))
         IN IF e.content = "Analyzing user request" THEN <<"supervisor">> \o rest
            ELSE IF e.content = "Procesando solicitud" THEN <<e.agent_slot>> \o rest
            ELSE IF e.content = "Esperando aprobacion humana"
                 THEN <<"hitl_checkpoint">> \o rest
            ELSE IF e.content = "Ejecucion finalizada" THEN <<"end">> \o rest
            ELSE rest

\* the DECISION entry the router writes
IsRouterDecision(e) ==
    /\ e.step_type = "decision"
    /\ e.content \in {"Routing to: " \o a : a \in AgentSlot \cup {"none"}}

\* the run is over, the router had selected a specialist and the specialist
\* returned a response
RoutedRunEnded ==
    /\ node = "__end__"
    /\ state.delegation_chain /= <<>>
    /\ state.current_response = "respuesta"

\* C32: in such a run the nodes executed are the router, the selected
\* specialist and the end node, and the audit log holds exactly one DECISION
\* entry of the router, followed by a THINKING or DECISION entry of the
\* specialist
C32_RoutedRunTrace ==
    RoutedRunEnded =>
        LET slot == state.delegation_chain[1]
            log == state.brain_log
        IN /\ ExecutedNodes(log) = <<"supervisor", slot, "end">>
           /\ supersteps = 3
           /\ Cardinality({i \in DOMAIN log : IsRouterDecision(log[i])}) = 1
           /\ \E i, j \in DOMAIN log :
                  /\ i < j
                  /\ IsRouterDecision(log[i])
                  /\ log[i].content = "Routing to: " \o slot
                  /\ log[j].agent_slot = slot
                  /\ log[j].step_type \in {"thinking", "decision"}

C32_Witness ==
    /\ RoutedRunEnded
    /\ state.delegation_chain[1] = "admisiones"
    /\ state.is_complete
    /\ chat_response.delivered

---------------------------------------------------------------------------

\* C33: evolve with one of the engine's own transitions leaves the state it
\* was given unchanged
C33_InputNotMutated ==
    (call.op = "evolve" /\ call.f \in RepoTransitions)
    => evolve(engine, call.input[1], call.f).state = call.input[1]

\* C34: one evolve call invokes the persistence callback at most once, and
\* when the transition function succeeded the caller's state gets neither an
\* ERROR entry nor error set, also when the callback raises
C34_CallbackAtMostOnce ==
    call.op = "evolve"
    => LET r == evolve(engine, call.input[1], call.f)
           t == transition_fn(call.f, call.input[1])
       IN /\ Len(r.engine.persisted) <= Len(engine.persisted) + 1
          /\ ~t.raised =>
                 /\ r.state.error = call.input[1].error
                 /\ CountEntries(r.state.brain_log, "error")
                        = CountEntries(call.input[1].brain_log, "error")

---------------------------------------------------------------------------

\* C35: whenever the suspend node has run, a stored approval request of the
\* run exists whose id is the state's hitl_request_id, pending until it is
\* reviewed; this for every state that reaches the suspend node
C35_SuspendAlwaysPersists ==
    HitlCheckpointExecuted
    => \E i \in DOMAIN hitl_requests :
           /\ hitl_requests[i].run_id = state.run_id
           /\ hitl_requests[i].id = state.hitl_request_id
           /\ (hitl_requests[i].reviewed_at = 0
                  => hitl_requests[i].status = "pending")

---------------------------------------------------------------------------

\* the position in names of its k-th known node name
KthValid(names, k) ==
    CHOOSE i \in DOMAIN names :
        /\ names[i] \in AgentSlot
        /\ Cardinality({j \in 1..i : names[j] \in AgentSlot}) = k

\* C37: whenever the router selects a specialist, the delegation chain of
\* its update starts with the selected node, which is next_agent; when
\* collaboration is requested the known secondary names follow in the order
\* of the classification and unknown names are left out; otherwise nothing
\* follows
C37_DelegationChainOrder ==
    node = "supervisor" =>
        \A llm \in ClassificationOutcomes :
            (~llm.raised /\ llm.decision.selected_agent /= "none") =>
                LET update == supervisor_node(state, llm)
                    chain == update.delegation_chain
                    names == llm.decision.secondary_agents
                    valid == {j \in DOMAIN names : names[j] \in AgentSlot}
                IN /\ "error" \notin DOMAIN update
                   /\ chain[1] = llm.decision.selected_agent
                   /\ chain[1] = update.next_agent
                   /\ IF llm.decision.requires_collaboration
                      THEN /\ Len(chain) = 1 + Cardinality(valid)
                           /\ \A k \in 1..Cardinality(valid) :
                                  chain[k + 1] = names[KthValid(names, k)]
                      ELSE Len(chain) = 1

\* the router selected tic with the secondaries tic, bogus, finanzas
C37_Witness ==
    /\ node = "tic"
    /\ state.next_agent = "tic"
    /\ state.delegation_chain = <<"tic", "tic", "finanzas">>

---------------------------------------------------------------------------

C36_ResumedOnlyIfApproved ==
    \A p \in Reviewers :
        reviews[p].resumed => reviews[p].resume_result = "resumed"

=============================================================================
